---- MODULE Spec2Model ----
(***************************************************************************)
(* State-machine model of src/language-learning-app.js: the phrase deck,   *)
(* the generate-button click handler with its retrying API call, the       *)
(* navigation handlers, the cooldown timer and text-to-speech.  One action *)
(* per event handler or per resumption of an awaiting handler.             *)
(***************************************************************************)
EXTENDS Integers, Sequences, FiniteSets, TLC

VARIABLES
    phrasesData,          \* let phrasesData = []            (line 46)
    currentPhraseIndex,   \* let currentPhraseIndex = 0      (line 47)
    learningLangCode,     \* let learningLangCode = null     (line 49)
    timerInterval,        \* let timerInterval = null        (line 50)
    generateBtnDisabled,  \* generateBtn.disabled
    prevBtnDisabled,      \* prevBtn.disabled
    nextBtnDisabled,      \* nextBtn.disabled
    outputShown,          \* outputContainer.style.display === 'block'
    calls,                \* click-handler invocations suspended at an await
    intervals,            \* live setInterval registrations of the host
    now,                  \* Date.now(), in ms
    voices,               \* let voices = []                (line 48)
    speechSupported,      \* window.speechSynthesis is defined
    platformVoices,       \* what speechSynthesis.getVoices() returns
    voicesHandler,        \* speechSynthesis.onvoiceschanged is set
    last                  \* the step taken last and what it observed

vars == <<phrasesData, currentPhraseIndex, learningLangCode, timerInterval,
          generateBtnDisabled, prevBtnDisabled, nextBtnDisabled, outputShown,
          calls, intervals, now, voices, speechSupported, platformVoices,
          voicesHandler, last>>

deckVars == <<phrasesData, currentPhraseIndex>>
uiVars == <<generateBtnDisabled, prevBtnDisabled, nextBtnDisabled, outputShown>>
timerVars == <<timerInterval, intervals>>
speechVars == <<voices, speechSupported, platformVoices, voicesHandler>>

\* ---------------------------------------------------------------- bounds
\* The clock stops at MaxNow; payloads come in NumBatches flavours; besides
\* the empty and the ten-phrase payload the endpoint can return ShortLen phrases.
MaxNow == 450000
NumBatches == 2
ShortLen == 2
\* A platform offers at most MaxVoices voices.
MaxVoices == 2
\* startTimer is called at most MaxStarts times when exercised by itself.
MaxStarts == 2

\* ------------------------------------------------------ program constants
WAIT_TIME == 5 * 60
maxRetries == 5
InitialDelay == 1000
TargetCount == 10
TickPeriod == 1000

NULL == "null"
\* timerInterval before any setInterval: null, here the handle no interval has.
NoInterval == 0

\* The languages offered by the two dropdowns (a prefix of the list).
languages ==
    << [name |-> "English", code |-> "en-US", latin_alphabet |-> TRUE],
       [name |-> "Spanish", code |-> "es-ES", latin_alphabet |-> TRUE] >>

\* Values a language <select> can hold: an empty placeholder or a populated code.
SelectValues == {""} \cup {languages[i].code : i \in 1..Len(languages)}

\* Values of the topic <select> and of the custom-topic input.
TopicValues == {"business", "custom"}
CustomInputs == {"", " ", "business"}

\* Steps by which the wall clock is observed to advance.
TimeSteps == {150000, 299500}

\* ------------------------------------------------------------- the endpoint
Phrase(b, i) == [native |-> <<"n", b, i>>, learning |-> <<"l", b, i>>]
Batch(b, n) == [i \in 1..n |-> Phrase(b, i)]
PayloadLens == {0, ShortLen, TargetCount}
Payloads == {Batch(b, n) : b \in 1..NumBatches, n \in PayloadLens}

\* The text of parts[0]: JSON text of a phrase array, or text that is not JSON.
Stringify(p) == <<"json", p>>
Texts == {<<"garbage">>} \cup {Stringify(p) : p \in Payloads}

\* JSON.parse: the value, or a SyntaxError.
JSONParse(text) ==
    IF text[1] = "json" THEN [ok |-> TRUE, value |-> text[2]]
    ELSE [ok |-> FALSE, value |-> <<>>]

\* How the awaited fetch() settles, and how the awaited response.json() settles.
FetchOutcomes == {"network_error", "status_not_ok", "status_ok"}
BodyOutcomes ==
    {[kind |-> "body_not_json", text |-> <<>>],
     [kind |-> "no_candidates", text |-> <<>>]}
    \cup {[kind |-> "parts", text |-> t] : t \in Texts}

\* --------------------------------------------------------------- helpers
\* String.prototype.trim on the custom-topic input.
Trim(s) == IF s = " " THEN "" ELSE s

\* topicMap[selectedTopic] || selectedTopic, or the trimmed custom input.
topicMap == [t \in {"business"} |-> "business"]
Topic(selectedTopic, custom) ==
    IF selectedTopic = "custom" THEN Trim(custom)
    ELSE IF selectedTopic \in DOMAIN topicMap THEN topicMap[selectedTopic]
    ELSE selectedTopic

\* The two validations of the click handler: both languages chosen, and a
\* custom topic not blank.
InputValid(nativeLangCode, learningSel, selectedTopic, custom) ==
    /\ ~(nativeLangCode = "" \/ learningSel = "")
    /\ ~(selectedTopic = "custom" /\ Trim(custom) = "")

\* phrasesData.map(p => p.learning): the phrases named in the exclusion
\* sentence of the prompt; no sentence at all for an empty deck.
LearningOf(p) == p.learning
NativeOf(p) == p.native
ExcludedPhrasesNative(deck) ==
    IF Len(deck) > 0 THEN [i \in 1..Len(deck) |-> NativeOf(deck[i])] ELSE <<>>
ExcludedPhrases(deck) ==
    IF Len(deck) > 0 THEN [i \in 1..Len(deck) |-> LearningOf(deck[i])] ELSE <<>>

\* The prompt, as far as it varies with the deck and the topic (the language
\* names and the per-field instructions are left out).
GenerationPrompt(topic, deck) ==
    [topic |-> topic, excluded |-> ExcludedPhrases(deck)]

\* displayCurrentPhrase: returns at once on an empty deck; reading a field of
\* phrasesData[currentPhraseIndex] throws a TypeError when the index is past
\* the end; otherwise it renders and sets the two navigation buttons.
DisplayThrows(deck, idx) == Len(deck) # 0 /\ idx >= Len(deck)
DisplayRenders(deck, idx) == Len(deck) # 0 /\ idx < Len(deck)
displayCurrentPhrase(deck, idx) ==
    IF DisplayRenders(deck, idx)
    THEN /\ prevBtnDisabled' = (idx = 0)
         /\ nextBtnDisabled' = (idx = Len(deck) - 1)
    ELSE UNCHANGED <<prevBtnDisabled, nextBtnDisabled>>

\* Math.floor((endTime - Date.now()) / 1000)
TimeLeft(endTime, t) == (endTime - t) \div 1000

\* delay *= 2
NextDelayLinear(delay) == delay + 1000
NextDelay(delay) == delay * 2

\* The try block of the retry loop encloses fetch, the status check,
\* response.json(), the shape check and JSON.parse: each of their failures
\* lands in its catch.
Causes == {"network_error", "status_not_ok", "body_not_json", "no_candidates", "parse_error"}
CaughtExceptParse(cause) == cause \in Causes \ {"parse_error"}
CaughtByRetryLoop(cause) == cause \in Causes

\* ---------------------------------------------------------------- speech
\* A language tag as the pair of its first two characters and the rest;
\* the tags of the codes in languages.
LangTag(code) ==
    CASE code = "en-US" -> <<"en", "US">>
      [] code = "es-ES" -> <<"es", "ES">>
      [] OTHER -> <<code, "">>

\* Tags (voice.lang) of the voices a platform may offer, and what getVoices()
\* may return: any list of up to MaxVoices of them.
VoiceTags == {<<"en", "US">>, <<"en", "GB">>, <<"es", "ES">>, <<"es", "MX">>}
Catalogs == UNION {[1..n -> VoiceTags] : n \in 0..MaxVoices}

\* !learningLangCode
Falsy(code) == code \in {NULL, ""}

\* v.lang === learningLangCode || v.lang.startsWith(learningLangCode.substring(0, 2))
VoiceMatchesExactly(v, code) == v = LangTag(code)
VoiceMatches(v, code) == v = LangTag(code) \/ v[1] = LangTag(code)[1]

\* voices.find(...): the first voice of the list that matches, or undefined.
NoVoice == <<>>
FindVoice(catalog, code) ==
    LET hits == {i \in 1..Len(catalog) : VoiceMatches(catalog[i], code)}
    IN  IF hits = {} THEN NoVoice
        ELSE catalog[CHOOSE i \in hits : \A j \in hits : i <= j]

\* loadVoices (lines 66-74): read the platform's list; while it is empty,
\* ask to be told when it changes.
loadVoicesKeepsList ==
    /\ UNCHANGED voices
    /\ voicesHandler' = (voicesHandler \/ Len(platformVoices) = 0)
loadVoices ==
    /\ voices' = platformVoices
    /\ voicesHandler' = (voicesHandler \/ Len(platformVoices) = 0)

\* window.onload (lines 455-460) on a platform with or without speech
\* synthesis whose list of voices is catalog at that time: loadVoices, which
\* without speechSynthesis throws on its first line.
onload(supported, catalog) ==
    /\ speechSupported = supported
    /\ platformVoices = IF supported THEN catalog ELSE <<>>
    /\ voices = IF supported THEN catalog ELSE <<>>
    /\ voicesHandler = (supported /\ Len(catalog) = 0)

\* ------------------------------------------------------------------ Init
\* The script's top level (lines 46-51) and the page as loaded.
PageLoaded ==
    /\ phrasesData = <<>>
    /\ currentPhraseIndex = 0
    /\ learningLangCode = NULL
    /\ timerInterval = NoInterval
    /\ generateBtnDisabled = FALSE
    /\ prevBtnDisabled \in BOOLEAN
    /\ nextBtnDisabled \in BOOLEAN
    /\ outputShown = FALSE
    /\ calls = {}
    /\ intervals = {}
    /\ now = 0
    /\ last = [op |-> "init"]

\* The page loaded on a platform whose voices have not arrived yet.
Init ==
    /\ PageLoaded
    /\ onload(TRUE, <<>>)


\* ------------------------------------------------- generate button click
\* Lines 346-351: disable the button, hide the results, reset the index.
ShowLoadingLeavesButton ==
    /\ UNCHANGED generateBtnDisabled
    /\ outputShown' = FALSE
    /\ currentPhraseIndex' = 0
ShowLoading ==
    /\ generateBtnDisabled' = TRUE
    /\ outputShown' = FALSE
    /\ currentPhraseIndex' = 0

\* callGeminiAPI up to its first await: the state of the retry loop with the
\* first fetch sent.  deckBefore, indexBefore and navigated record what the
\* deck was when the click arrived and whether navigation moved it since.
NewCall(prompt) ==
    [pc |-> "fetch", retries |-> 0, delay |-> InitialDelay,
     prompt |-> prompt, attempts |-> 1, waits |-> <<>>,
     deckBefore |-> phrasesData, indexBefore |-> currentPhraseIndex,
     navigated |-> FALSE]

\* A click the button delivers (it is not disabled) with invalid input: the
\* handler stores the learning language and returns after showing an error.
ClickInvalid(nativeLangCode, learningSel, selectedTopic, custom) ==
    /\ ~generateBtnDisabled
    /\ ~InputValid(nativeLangCode, learningSel, selectedTopic, custom)
    /\ learningLangCode' = learningSel
    /\ last' = [op |-> "invalid"]
    /\ UNCHANGED <<phrasesData, currentPhraseIndex, timerVars, generateBtnDisabled,
                   prevBtnDisabled, nextBtnDisabled, outputShown, calls, now>>
    /\ UNCHANGED speechVars

\* A click with valid input: runs to the first await of callGeminiAPI.
ClickGenerate(nativeLangCode, learningSel, selectedTopic, custom) ==
    /\ ~generateBtnDisabled
    /\ InputValid(nativeLangCode, learningSel, selectedTopic, custom)
    /\ learningLangCode' = learningSel
    /\ ShowLoading
    /\ calls' = calls \cup
         {NewCall(GenerationPrompt(Topic(selectedTopic, custom), phrasesData))}
    /\ last' = [op |-> "click"]
    /\ UNCHANGED <<phrasesData, timerVars, prevBtnDisabled, nextBtnDisabled, now>>
    /\ UNCHANGED speechVars

\* A click on the disabled button: the host delivers no click event.
ClickBlocked ==
    /\ generateBtnDisabled
    /\ last' = [op |-> "blocked"]
    /\ UNCHANGED <<deckVars, learningLangCode, timerVars, uiVars, calls, now>>
    /\ UNCHANGED speechVars

\* ------------------------------------------------------- callGeminiAPI
\* The handler's catch and finally (lines 416-423), reached when
\* callGeminiAPI throws with its loop counter at retries: the error message
\* is shown.  The button is left as it is and no timer is started.
HandlerCatchStartsTimer(c, retries, error) ==
    /\ calls' = calls \ {c}
    /\ last' = [op |-> "failure", call |-> [c EXCEPT !.retries = retries],
                error |-> error]
    /\ timerInterval' = timerInterval + 1
    /\ intervals' = intervals \cup
         {[id |-> timerInterval + 1, endTime |-> now + WAIT_TIME * 1000,
           due |-> now + TickPeriod]}
    /\ UNCHANGED <<generateBtnDisabled, outputShown, learningLangCode, now>>
HandlerCatch(c, retries, error) ==
    /\ calls' = calls \ {c}
    /\ last' = [op |-> "failure", call |-> [c EXCEPT !.retries = retries],
                error |-> error]
    /\ UNCHANGED <<generateBtnDisabled, outputShown, learningLangCode, timerVars, now>>

\* The catch of the retry loop (lines 167-176) on the failure of attempt
\* c.attempts: count it; sleep for delay if the budget allows another
\* attempt (setTimeout(res, delay)), else rethrow the error just caught to the click handler.
RetryCatch(c, cause) ==
    LET error == [cause |-> cause, attempt |-> c.attempts]
        retries == c.retries + 1
    IN  IF retries < maxRetries
        THEN /\ calls' = (calls \ {c}) \cup
                   {[c EXCEPT !.retries = retries, !.pc = "sleep",
                              !.waits = Append(c.waits, c.delay)]}
             /\ last' = [op |-> "attempt_failed", call |-> c, error |-> error]
             /\ UNCHANGED <<deckVars, learningLangCode, timerVars, uiVars, now>>
        ELSE /\ HandlerCatch(c, retries, error)
             /\ UNCHANGED <<deckVars, prevBtnDisabled, nextBtnDisabled>>

\* A failure of the named cause inside callGeminiAPI: caught by the retry
\* loop when the try block encloses it, else it leaves callGeminiAPI at once.
Throw(c, cause) ==
    IF CaughtByRetryLoop(cause)
    THEN RetryCatch(c, cause)
    ELSE /\ HandlerCatch(c, c.retries, [cause |-> cause, attempt |-> c.attempts])
         /\ UNCHANGED <<deckVars, prevBtnDisabled, nextBtnDisabled>>

\* startTimer (lines 264-288): endTime from the clock, a new interval whose
\* handle goes to timerInterval; the interval of an earlier call is not cleared.
\* setInterval returns a handle it has not returned before.
NewIntervalId == timerInterval + 1
startTimerNoInterval ==
    /\ UNCHANGED timerInterval
    /\ UNCHANGED intervals
startTimer ==
    /\ timerInterval' = NewIntervalId
    /\ intervals' = intervals \cup
         {[id |-> NewIntervalId, endTime |-> now + WAIT_TIME * 1000,
           due |-> now + TickPeriod]}

\* callGeminiAPI returned value, parsed from text, to the handler (lines
\* 404-414): replace the deck, render, show the container, start the
\* cooldown.  A render that throws goes to the handler's catch (lines
\* 416-423) with the deck already replaced.
Returned(c, text, value) ==
    /\ phrasesData' = value
    /\ UNCHANGED currentPhraseIndex
    /\ IF DisplayThrows(value, currentPhraseIndex)
       THEN /\ calls' = calls \ {c}
            /\ last' = [op |-> "render_failed", call |-> c, text |-> text,
                        error |-> [cause |-> "type_error", attempt |-> c.attempts]]
            /\ UNCHANGED <<generateBtnDisabled, outputShown, learningLangCode, timerVars, now>>
            /\ UNCHANGED <<prevBtnDisabled, nextBtnDisabled>>
       ELSE /\ displayCurrentPhrase(value, currentPhraseIndex)
            /\ outputShown' = TRUE
            /\ startTimer
            /\ calls' = calls \ {c}
            /\ last' = [op |-> "success", call |-> c, text |-> text]
            /\ UNCHANGED <<generateBtnDisabled, learningLangCode, now>>

\* The awaited fetch settles (lines 148-156).
FetchSettles(c, outcome) ==
    /\ c \in calls
    /\ c.pc = "fetch"
    /\ IF outcome = "status_ok"
       THEN /\ calls' = (calls \ {c}) \cup {[c EXCEPT !.pc = "body"]}
            /\ last' = [op |-> "response"]
            /\ UNCHANGED <<deckVars, learningLangCode, timerVars, uiVars, now>>
       ELSE Throw(c, outcome)
    /\ UNCHANGED speechVars

\* The awaited response.json() settles (lines 158-166).
BodySettles(c, body) ==
    /\ c \in calls
    /\ c.pc = "body"
    /\ IF body.kind # "parts"
       THEN Throw(c, body.kind)
       ELSE LET parsed == JSONParse(body.text)
            IN  IF parsed.ok THEN Returned(c, body.text, parsed.value)
                ELSE Throw(c, "parse_error")
    /\ UNCHANGED speechVars

\* The backoff timeout set for c.delay ms fires (lines 171-172): double the
\* delay, loop, fetch.  waits keeps the delays asked of setTimeout; the
\* instant at which the host fires each is not modelled.
Wake(c) ==
    /\ c \in calls
    /\ c.pc = "sleep"
    /\ calls' = (calls \ {c}) \cup
         {[c EXCEPT !.pc = "fetch", !.delay = NextDelay(c.delay),
                    !.attempts = c.attempts + 1]}
    /\ last' = [op |-> "wake"]
    /\ UNCHANGED <<deckVars, learningLangCode, timerVars, uiVars, now>>
    /\ UNCHANGED speechVars

\* ------------------------------------------------------------ navigation
\* The calls in flight learn that navigation moved the index.
MarkNavigated == calls' = {[c EXCEPT !.navigated = TRUE] : c \in calls}

\* showNextPhrase as it would be if it also enabled the generate button.
showNextPhraseEnablesGenerate ==
    /\ ~nextBtnDisabled \/ outputShown
    /\ IF currentPhraseIndex < Len(phrasesData) - 1
       THEN /\ currentPhraseIndex' = currentPhraseIndex + 1
            /\ displayCurrentPhrase(phrasesData, currentPhraseIndex + 1)
            /\ MarkNavigated
       ELSE UNCHANGED <<currentPhraseIndex, prevBtnDisabled, nextBtnDisabled, calls>>
    /\ last' = [op |-> "next"]
    /\ generateBtnDisabled' = FALSE
    /\ UNCHANGED <<phrasesData, learningLangCode, timerVars, outputShown, now>>
    /\ UNCHANGED speechVars

\* showNextPhrase, from a click on nextBtn (delivered unless the button is
\* disabled) or from ArrowRight (handled while the container is shown).
showNextPhrase ==
    /\ ~nextBtnDisabled \/ outputShown
    /\ IF currentPhraseIndex < Len(phrasesData) - 1
       THEN /\ currentPhraseIndex' = currentPhraseIndex + 1
            /\ displayCurrentPhrase(phrasesData, currentPhraseIndex + 1)
            /\ MarkNavigated
       ELSE UNCHANGED <<currentPhraseIndex, prevBtnDisabled, nextBtnDisabled, calls>>
    /\ last' = [op |-> "next"]
    /\ UNCHANGED <<phrasesData, learningLangCode, timerVars, generateBtnDisabled,
                   outputShown, now>>
    /\ UNCHANGED speechVars

\* showPreviousPhrase, from prevBtn or ArrowLeft.
showPreviousPhrase ==
    /\ ~prevBtnDisabled \/ outputShown
    /\ IF currentPhraseIndex > 0
       THEN /\ currentPhraseIndex' = currentPhraseIndex - 1
            /\ displayCurrentPhrase(phrasesData, currentPhraseIndex - 1)
            /\ MarkNavigated
       ELSE UNCHANGED <<currentPhraseIndex, prevBtnDisabled, nextBtnDisabled, calls>>
    /\ last' = [op |-> "previous"]
    /\ UNCHANGED <<phrasesData, learningLangCode, timerVars, generateBtnDisabled,
                   outputShown, now>>
    /\ UNCHANGED speechVars

\* ---------------------------------------------------------------- speech
\* speakText(text) (lines 81-120).  speakThrows: speechSynthesis.speak throws.
\* The step records how the call ended: "no_language_code" (the safeguard
\* return), "not_supported" (error message), "not_ready" (the notice shown
\* while no voice is loaded), "speak_failed" (the notice of the catch) or
\* "spoken"; speakCalls counts the calls of speechSynthesis.speak.
speakText(text, speakThrows) ==
    LET ended(result, speakCalls, utterance) ==
            last' = [op |-> "speak", result |-> result, speakCalls |-> speakCalls,
                     utterance |-> utterance, voicesBefore |-> voices]
    IN  IF Falsy(learningLangCode)
        THEN /\ ended("no_language_code", 0, <<>>)
             /\ UNCHANGED <<voices, voicesHandler>>
        ELSE IF ~speechSupported
        THEN /\ ended("not_supported", 0, <<>>)
             /\ UNCHANGED <<voices, voicesHandler>>
        ELSE IF Len(voices) = 0
        THEN /\ ended("not_ready", 0, <<>>)
             /\ loadVoices
        ELSE /\ ended(IF speakThrows THEN "speak_failed" ELSE "spoken", 1,
                      [text |-> text, lang |-> learningLangCode,
                       voice |-> FindVoice(voices, learningLangCode)])
             /\ UNCHANGED <<voices, voicesHandler>>

\* A click on the learning phrase (lines 442-447) while the deck has a
\* phrase at the index: speak it.
ClickLearningPhrase(speakThrows) ==
    /\ currentPhraseIndex < Len(phrasesData)
    /\ speakText(phrasesData[currentPhraseIndex + 1].learning, speakThrows)
    /\ UNCHANGED <<deckVars, learningLangCode, timerVars, uiVars, calls, now,
                   speechSupported, platformVoices>>

\* The platform finishes loading its voices: getVoices() returns catalog from now on.
VoicesArrive(catalog) ==
    /\ speechSupported
    /\ Len(platformVoices) = 0
    /\ Len(catalog) > 0
    /\ platformVoices' = catalog
    /\ UNCHANGED <<deckVars, learningLangCode, timerVars, uiVars, calls, now,
                   voices, speechSupported, voicesHandler, last>>

\* The voiceschanged event reaches the handler loadVoices set (lines 70-72).
onvoiceschanged ==
    /\ voicesHandler
    /\ voices # platformVoices
    /\ voices' = platformVoices
    /\ last' = [op |-> "voiceschanged"]
    /\ UNCHANGED <<deckVars, learningLangCode, timerVars, uiVars, calls, now,
                   speechSupported, platformVoices, voicesHandler>>

\* ----------------------------------------------------------------- timer
\* clearInterval(handle)
clearInterval(handle) == intervals' = {iv \in intervals : iv.id # handle}

\* One firing of an interval callback (lines 271-287), not before it is due.
\* At timeLeft <= 0 it clears the interval timerInterval names and enables
\* the button; else it rewrites the bubble.
Tick(iv) ==
    /\ iv \in intervals
    /\ now >= iv.due
    /\ LET timeLeft == TimeLeft(iv.endTime, now)
       IN  IF timeLeft <= 0
           THEN /\ clearInterval(timerInterval)
                /\ generateBtnDisabled' = FALSE
                /\ last' = [op |-> "expire", timeLeft |-> timeLeft, endTime |-> iv.endTime,
                            id |-> iv.id, at |-> now]
           ELSE /\ intervals' = (intervals \ {iv}) \cup
                      {[iv EXCEPT !.due = now + TickPeriod]}
                /\ last' = [op |-> "tick", timeLeft |-> timeLeft, endTime |-> iv.endTime,
                            id |-> iv.id, at |-> now]
                /\ UNCHANGED generateBtnDisabled
    /\ UNCHANGED <<deckVars, learningLangCode, timerInterval, prevBtnDisabled,
                   nextBtnDisabled, outputShown, calls, now>>
    /\ UNCHANGED speechVars

\* The wall clock moves on.  Only the interval callbacks and startTimer read
\* it, so the model lets it move while an interval is live; no handler runs.
Advance(d) ==
    /\ intervals # {}
    /\ now + d <= MaxNow
    /\ now' = now + d
    /\ UNCHANGED <<deckVars, learningLangCode, timerVars, uiVars, calls, last>>
    /\ UNCHANGED speechVars

\* ------------------------------------------------------------------ Next
Next ==
    \/ \E n \in SelectValues, l \in SelectValues, t \in TopicValues, u \in CustomInputs :
          ClickGenerate(n, l, t, u)
    \/ \E n \in SelectValues, l \in SelectValues, t \in TopicValues, u \in CustomInputs :
          ClickInvalid(n, l, t, u)
    \/ ClickBlocked
    \/ \E c \in calls, o \in FetchOutcomes : FetchSettles(c, o)
    \/ \E c \in calls, b \in BodyOutcomes : BodySettles(c, b)
    \/ \E c \in calls : Wake(c)
    \/ showNextPhrase
    \/ showPreviousPhrase
    \/ \E iv \in intervals : Tick(iv)
    \/ \E d \in TimeSteps : Advance(d)

Spec == Init /\ [][Next]_vars

\* The cooldown timer by itself: startTimer called at any time, up to
\* MaxStarts times, on the loaded page, with its interval callbacks and the clock.
CallStartTimer ==
    /\ timerInterval < MaxStarts
    /\ startTimer
    /\ last' = [op |-> "start"]
    /\ UNCHANGED <<deckVars, learningLangCode, uiVars, calls, now, speechVars>>

NextTimer ==
    \/ CallStartTimer
    \/ \E iv \in intervals : Tick(iv)
    \/ \E d \in TimeSteps : Advance(d)

SpecTimer == Init /\ [][NextTimer]_vars

\* speakText by itself.  The page after its first regeneration has succeeded
\* with ShortLen phrases of the language code: the deck is shown at its
\* first phrase and the cooldown has just started.
DeckShown(code) ==
    /\ phrasesData = Batch(1, ShortLen)
    /\ currentPhraseIndex = 0
    /\ learningLangCode = code
    /\ timerInterval = NoInterval + 1
    /\ intervals = {[id |-> NoInterval + 1, endTime |-> WAIT_TIME * 1000,
                     due |-> TickPeriod]}
    /\ generateBtnDisabled = TRUE
    /\ prevBtnDisabled = TRUE
    /\ nextBtnDisabled = (ShortLen = 1)
    /\ outputShown = TRUE
    /\ calls = {}
    /\ now = 0
    /\ last = [op |-> "shown"]

\* Any platform, any list of voices at load time, either language.
InitVoice ==
    \E i \in 1..Len(languages), supported \in BOOLEAN, catalog \in Catalogs :
        /\ DeckShown(languages[i].code)
        /\ onload(supported, catalog)

NextVoice ==
    \/ \E speakThrows \in BOOLEAN : ClickLearningPhrase(speakThrows)
    \/ \E catalog \in Catalogs : VoicesArrive(catalog)
    \/ onvoiceschanged

SpecVoice == InitVoice /\ [][NextVoice]_vars

\* The whole page with speech, in a smaller surrounding: one native
\* language and topic, an endpoint that fails by the network only and
\* answers with ShortLen phrases, a platform with or without speech
\* synthesis whose one voice arrives after the page has loaded.
InitSpeech ==
    \E supported \in BOOLEAN :
        /\ PageLoaded
        /\ onload(supported, <<>>)

NextSpeech ==
    \/ \E i \in 1..Len(languages) :
          ClickGenerate(languages[1].code, languages[i].code, "business", "")
    \/ \E l \in {"", languages[1].code} :
          ClickInvalid(languages[1].code, l, "custom", "")
    \/ ClickBlocked
    \/ \E c \in calls, o \in {"network_error", "status_ok"} : FetchSettles(c, o)
    \/ \E c \in calls :
          BodySettles(c, [kind |-> "parts", text |-> Stringify(Batch(1, ShortLen))])
    \/ \E c \in calls : Wake(c)
    \/ showNextPhrase
    \/ showPreviousPhrase
    \/ \E iv \in intervals : Tick(iv)
    \/ \E d \in TimeSteps : Advance(d)
    \/ \E speakThrows \in BOOLEAN : ClickLearningPhrase(speakThrows)
    \/ VoicesArrive(<<LangTag(languages[1].code)>>)
    \/ onvoiceschanged

SpecSpeech == InitSpeech /\ [][NextSpeech]_vars

TypeOK ==
    /\ phrasesData \in Payloads \cup {<<>>}
    /\ currentPhraseIndex \in 0..(TargetCount - 1)
    /\ now \in 0..MaxNow
    /\ Cardinality(calls) <= 1

\* ================================================================ claims
\* The cooldown window started by the last success has not expired: the
\* interval timerInterval names is still live.
CooldownActive == \E iv \in intervals : iv.id = timerInterval

\* What callGeminiAPI holds of each call in flight: its place in the retry
\* loop, retries, delay and the prompt it sends.
InFlight ==
    {[pc |-> c.pc, retries |-> c.retries, delay |-> c.delay,
      attempts |-> c.attempts, prompt |-> c.prompt] : c \in calls}

\* A step that is a click on the generate button, delivered or not.
ClickAttempt ==
    \/ ClickBlocked
    \/ \E n \in SelectValues, l \in SelectValues, t \in TopicValues, u \in CustomInputs :
          ClickGenerate(n, l, t, u) \/ ClickInvalid(n, l, t, u)

\* C1: when a regeneration fails by exhausting the retries, phrases is what
\* it was when the regeneration was requested, and so is currentIndex unless
\* navigation moved it in between.
C1_FailureLeavesDeck ==
    last.op = "failure" =>
        /\ phrasesData = last.call.deckBefore
        /\ ~last.call.navigated => currentPhraseIndex = last.call.indexBefore

\* C2: after a failed regeneration the regenerate action is enabled again:
\* the next click is accepted.
C2_FailureReenables ==
    last.op = "failure" => ~generateBtnDisabled

\* C3: right after a regeneration completes successfully, currentIndex = 0,
\* whatever navigation happened while the request was in flight.
C3_SuccessResetsIndex ==
    last.op = "success" => currentPhraseIndex = 0

\* C4: whenever phrases is non-empty, 0 <= currentIndex < phrases.length.
C4_IndexInRange ==
    Len(phrasesData) > 0 =>
        (0 <= currentPhraseIndex /\ currentPhraseIndex < Len(phrasesData))

\* C5: after a successful regeneration the deck holds exactly 10 phrases,
\* whatever parseable payload the endpoint returned.
C5_SuccessYieldsTen ==
    last.op = "success" => Len(phrasesData) = TargetCount

\* C6: from a successful regeneration until its cooldown expires the button
\* is disabled, so every click in that window is blocked: it starts no call
\* (no network request) and leaves phrases, currentIndex and the cooldown
\* window unchanged.
C6_BlockedDuringCooldown ==
    /\ [](CooldownActive => generateBtnDisabled)
    /\ [][(CooldownActive /\ ClickAttempt) =>
            (ClickBlocked /\ UNCHANGED <<phrasesData, currentPhraseIndex, calls,
                                         timerInterval, intervals>>)]_vars

\* A click was blocked while the cooldown of a ten-phrase deck was running.
C6_Witness ==
    /\ last.op = "blocked"
    /\ CooldownActive
    /\ Len(phrasesData) = TargetCount
    /\ calls = {}

\* C7: at most one regeneration is in flight; a click while one is
\* outstanding (awaiting the network or sleeping in backoff) is blocked: it
\* starts no call, sends nothing and leaves the call in flight as it is.
C7_OneInFlight ==
    /\ [](Cardinality(calls) <= 1)
    /\ [](calls # {} => generateBtnDisabled)
    /\ [][(calls # {} /\ ClickAttempt) =>
            (ClickBlocked /\ UNCHANGED <<calls, deckVars, uiVars, timerVars>>)]_vars

\* A click was blocked while the one call in flight slept in backoff.
C7_Witness ==
    /\ last.op = "blocked"
    /\ \E c \in calls : c.pc = "sleep" /\ c.retries = 2

\* C8: a call that fails for good has made exactly 5 attempts, has slept
\* 1000, 2000, 4000 and 8000 ms between them (15000 ms, none after the 5th),
\* surfaces the error of the 5th attempt, and is gone.
C8_FiveAttemptsBackoff ==
    last.op = "failure" =>
        /\ last.call.attempts = 5
        /\ last.call.retries = 5
        /\ last.call.waits = <<1000, 2000, 4000, 8000>>
        /\ last.call.waits[1] + last.call.waits[2] + last.call.waits[3]
             + last.call.waits[4] = 15000
        /\ last.error.attempt = 5
        /\ last.error.cause \in Causes
        /\ calls = {}

\* A call has just failed for good, on a parse error of its 5th response.
C8_Witness ==
    /\ last.op = "failure"
    /\ last.error.cause = "parse_error"
    /\ last.call.attempts = 5

\* C9: a failed attempt, whatever its cause, uses one unit of the budget and
\* is followed by the same backoff; a valid response on attempt k <= 5 makes
\* generate return its parsed payload after exactly k attempts, and an error
\* surfaces only when the budget is spent.
C9_FailuresShareBudget ==
    /\ last.op = "attempt_failed" =>
          /\ last.error.cause \in Causes
          /\ last.error.attempt = last.call.attempts
          /\ [last.call EXCEPT !.retries = @ + 1, !.pc = "sleep",
                               !.waits = Append(@, last.call.delay)] \in calls
    /\ last.op \in {"success", "render_failed"} =>
          /\ last.call.attempts = last.call.retries + 1
          /\ last.call.attempts <= 5
          /\ Len(last.call.waits) = last.call.retries
          /\ Stringify(phrasesData) = last.text
    /\ last.op = "failure" => last.call.retries = 5

\* generate returned the payload of its 5th response, after four failures.
C9_Witness ==
    /\ last.op = "success"
    /\ last.call.attempts = 5
    /\ Len(phrasesData) = TargetCount

\* C10: the exclusion list a call sends is the learning strings of the deck
\* as it was when the regeneration was requested, in deck order, on every
\* attempt; it is empty for an empty deck.
C10_ExclusionIsDeck ==
    \A c \in calls :
        /\ Len(c.prompt.excluded) = Len(c.deckBefore)
        /\ \A i \in 1..Len(c.deckBefore) : c.prompt.excluded[i] = c.deckBefore[i].learning
        /\ c.deckBefore = phrasesData

\* A call over a ten-phrase deck is on its second attempt.
C10_Witness ==
    \E c \in calls :
        /\ Len(c.deckBefore) = TargetCount
        /\ c.attempts = 2
        /\ Len(c.prompt.excluded) = TargetCount

\* C11: on a deck of n > 0 phrases next() moves the index up by exactly one
\* when it is below n - 1 and is a no-op at the last phrase (no wrap);
\* previous() moves it down by one when it is above 0 and is a no-op at the
\* first; on an empty deck both are no-ops.
C11_NavigationSteps ==
    [][/\ showNextPhrase =>
            currentPhraseIndex' =
                IF Len(phrasesData) > 0 /\ currentPhraseIndex < Len(phrasesData) - 1
                THEN currentPhraseIndex + 1 ELSE currentPhraseIndex
       /\ showPreviousPhrase =>
            currentPhraseIndex' =
                IF Len(phrasesData) > 0 /\ currentPhraseIndex > 0
                THEN currentPhraseIndex - 1 ELSE currentPhraseIndex]_vars

\* C12: a cooldown started for WAIT_TIME seconds is active at once and stays
\* active while endTime - now > 0; its expiry is signalled only when nothing
\* remains, so the button is never enabled again before the full duration
\* has elapsed, and after the expiry the window is no longer active.
C12_CooldownFullDuration ==
    /\ last.op = "success" => CooldownActive
    /\ last.op = "tick" => CooldownActive
    /\ last.op = "expire" =>
          /\ last.endTime - last.at <= 0
          /\ ~CooldownActive

\* C13: startTimer called again before the running window has expired
\* replaces that window: at most one interval is live at a time, and every
\* expiry is that of the newest window, which it ends.
C13_RestartReplaces ==
    /\ Cardinality(intervals) <= 1
    /\ last.op = "expire" => (last.id = timerInterval /\ intervals = {})

\* C14: every interval callback computes the time left from endTime and the
\* clock; whenever the callbacks run, the time left they report never goes
\* up and is never negative, and the expiry is signalled at the first
\* callback that runs at or after endTime: no callback before endTime signals
\* it and none at or after endTime fails to.
C14_RemainingFromClock ==
    /\ [](last.op = "tick" =>
            /\ last.timeLeft = (last.endTime - last.at) \div 1000
            /\ last.timeLeft >= 0
            /\ last.at < last.endTime)
    /\ [](last.op = "expire" => last.at >= last.endTime)
    /\ [][(last.op = "tick" /\ last'.op = "tick" /\ last'.id = last.id) =>
            last'.timeLeft <= last.timeLeft]_vars

C16_ExactVoicePreferred ==
    (last.op = "speak" /\ Len(last.voicesBefore) > 0 /\ last.result # "not_supported") =>
        LET catalog == last.voicesBefore
            code == last.utterance.lang
            exact == {i \in 1..Len(catalog) : VoiceMatchesExactly(catalog[i], code)}
            prefix == {i \in 1..Len(catalog) : catalog[i][1] = LangTag(code)[1]}
        IN  /\ last.speakCalls = 1
            /\ last.utterance.voice =
                  IF exact # {} THEN LangTag(code)
                  ELSE IF prefix # {}
                       THEN catalog[CHOOSE i \in prefix : \A j \in prefix : i <= j]
                       ELSE NoVoice

\* C17: every call of speakText ends in exactly one of four ways: spoken,
\* not ready (no voices loaded), not supported, or speak failed.  Without
\* speech synthesis it ends as not supported whatever the list of voices;
\* a throwing speechSynthesis.speak ends it as speak failed; it calls
\* speechSynthesis.speak at most once; and however it ends it leaves the
\* deck, the cooldown and the generate button as they were.
C17_SpeakOutcomes ==
    /\ [](last.op = "speak" =>
            /\ last.result \in {"spoken", "not_ready", "not_supported", "speak_failed"}
            /\ ~speechSupported => last.result = "not_supported"
            /\ last.speakCalls = IF last.result \in {"spoken", "speak_failed"} THEN 1 ELSE 0)
    /\ [][\A speakThrows \in BOOLEAN :
            ClickLearningPhrase(speakThrows) =>
                /\ UNCHANGED <<deckVars, timerVars, generateBtnDisabled, calls>>
                /\ (speakThrows /\ last'.speakCalls = 1) => last'.result = "speak_failed"]_vars

\* C20: showNextPhrase, showPreviousPhrase and speakText, in any state and
\* at any point of a call in flight, leave the deck's phrases, the cooldown
\* timer, the generate button and the call's retry state (attempts made,
\* next delay) as they were; the first two change at most the index, the
\* third not even that.  A step of callGeminiAPI that does not return
\* changes neither the deck nor the cooldown.
C20_HandlersFrame ==
    [][/\ (showNextPhrase \/ showPreviousPhrase) =>
            /\ UNCHANGED <<phrasesData, timerVars, generateBtnDisabled, now>>
            /\ InFlight' = InFlight
       /\ (\E speakThrows \in BOOLEAN : ClickLearningPhrase(speakThrows)) =>
            /\ UNCHANGED <<deckVars, timerVars, generateBtnDisabled, now, calls>>
       /\ (calls # {} /\ calls' # {} /\ InFlight' # InFlight) =>
            UNCHANGED <<deckVars, timerVars>>]_vars

\* The phrase was spoken while a call slept in backoff after its second
\* failure, navigation having moved the index since the click.
C20_Witness ==
    /\ last.op = "speak"
    /\ last.result = "spoken"
    /\ currentPhraseIndex = 1
    /\ \E c \in calls : c.pc = "sleep" /\ c.retries = 2 /\ c.navigated

C19_CooldownOnlyOnSuccess ==
    /\ [](timerInterval = NoInterval => intervals = {})
    /\ [](last.op = "success" =>
            /\ phrasesData = JSONParse(last.text).value
            /\ CooldownActive
            /\ \A iv \in intervals : iv.id = timerInterval)
    /\ [][LET started == {iv \in intervals' :
                            ~\E old \in intervals : old.id = iv.id /\ old.endTime = iv.endTime}
          IN  /\ started # {} =>
                    /\ last'.op = "success"
                    /\ Cardinality(started) = 1
                    /\ \A iv \in started : iv.endTime = now + WAIT_TIME * 1000
              /\ last'.op \in {"failure", "render_failed", "attempt_failed",
                                "blocked", "invalid"} => UNCHANGED timerVars]_vars

\* A regeneration has just failed for good while no cooldown was running,
\* after an earlier one had succeeded and its cooldown had expired.
C19_Witness ==
    /\ last.op = "failure"
    /\ timerInterval # NoInterval
    /\ intervals = {}
    /\ Len(phrasesData) = TargetCount

\* C21: while a deck is shown, the language code speakText uses is the
\* learning language the deck was generated for: it changes only in the
\* step of a successful regeneration that replaces the deck, never when a
\* regeneration is requested, is rejected by the validation, or fails.
C21_LanguageFollowsDeck ==
    [][(Len(phrasesData) > 0 /\ learningLangCode' # learningLangCode) =>
          (last'.op = "success" /\ phrasesData' = JSONParse(last'.text).value)]_vars

====
